---- MODULE Spec2Model ----
(***************************************************************************)
(* A model of lib/python/script/raster.py (GRASS scripting library):       *)
(* raster_history, raster_info, mapcalc, mapcalc_start and raster_what.    *)
(*                                                                         *)
(* Text is a sequence of one-character strings, so that formatting,        *)
(* joining, splitting and parsing are computed character by character.     *)
(* Python values carry a tag k ("str", "list", "tuple", "num", "none")     *)
(* and a payload v.  The outcome of a call is [k |-> "return", v |-> x]    *)
(* or [k |-> "raise", v |-> <exception name>].                             *)
(***************************************************************************)
EXTENDS Integers, Sequences, FiniteSets, TLC

VARIABLES
    world,    \* what the toolsuite and the process environment hold
    last,     \* the last call of this module: arguments, effects, outcome
    procs     \* the r.mapcalc processes started by mapcalc_start

vars == <<world, last, procs>>

(***************************************************************************)
(* Bounds of the model.                                                    *)
(***************************************************************************)
MaxMaps == 2
MaxPoints == 2
MaxProcs == 2

(***************************************************************************)
(* Python values and text helpers.                                         *)
(***************************************************************************)
PStr(t) == [k |-> "str", v |-> t]
PList(s) == [k |-> "list", v |-> s]
PTuple(s) == [k |-> "tuple", v |-> s]
PNum(n) == [k |-> "num", v |-> n]
PNone == [k |-> "none", v |-> 0]

Return(x) == [k |-> "return", v |-> x]
Raise(e) == [k |-> "raise", v |-> e]

SeqsUpTo(S, n) == UNION {[1..m -> S] : m \in 0..n}

Digits == <<"0", "1", "2", "3", "4", "5", "6", "7", "8", "9">>
DigitChar(d) == Digits[d + 1]

RECURSIVE DecStr(_)
DecStr(n) ==
    IF n < 10 THEN <<DigitChar(n)>>
    ELSE DecStr(n \div 10) \o <<DigitChar(n % 10)>>

\* '%f' % n for an integer n: six decimals.
FormatF(n) ==
    (IF n < 0 THEN <<"-">> ELSE <<>>)
        \o DecStr(IF n < 0 THEN -n ELSE n)
        \o <<".", "0", "0", "0", "0", "0", "0">>

\* sep.join(parts)
RECURSIVE Join(_, _)
Join(parts, sep) ==
    IF parts = <<>> THEN <<>>
    ELSE IF Len(parts) = 1 THEN Head(parts)
    ELSE Head(parts) \o <<sep>> \o Join(Tail(parts), sep)

\* s.split(sep) for a one-character separator: the texts between the
\* separators, one more than there are separators, never empty.
SepPositions(s, sep) == {i \in 1..Len(s) : s[i] = sep}

\* Where the n-th separator stands, 0 before the first, Len(s) + 1 after the last.
NthSep(s, pos, n) ==
    IF n = 0 THEN 0
    ELSE IF n > Cardinality(pos) THEN Len(s) + 1
    ELSE CHOOSE i \in pos : Cardinality({j \in pos : j <= i}) = n

Split(s, sep) ==
    LET pos == SepPositions(s, sep)
    IN  [n \in 1..(Cardinality(pos) + 1) |->
            SubSeq(s, NthSep(s, pos, n - 1) + 1, NthSep(s, pos, n) - 1)]

\* s.splitlines(): a line ends at "\n", at "\r" or at "\r\n" (one break),
\* the breaks are left out, and a text that ends in a break has no empty
\* last line.
BreakEnds(s) ==
    {i \in 1..Len(s) :
        \/ s[i] = "\n"
        \/ s[i] = "\r" /\ ~(i < Len(s) /\ s[i + 1] = "\n")}

\* Where the break that ends at position i starts.
BreakStart(s, i) ==
    IF i > 1 /\ i <= Len(s) /\ s[i] = "\n" /\ s[i - 1] = "\r" THEN i - 1 ELSE i

SplitLines(s) ==
    LET ends == BreakEnds(s)
        m == Cardinality(ends)
        rest == IF NthSep(s, ends, m) < Len(s) THEN 1 ELSE 0
    IN  [n \in 1..(m + rest) |->
            SubSeq(s, NthSep(s, ends, n - 1) + 1,
                   BreakStart(s, NthSep(s, ends, n)) - 1)]

\* s[n:]
Drop(s, n) == IF Len(s) <= n THEN <<>> ELSE SubSeq(s, n + 1, Len(s))

(***************************************************************************)
(* Message catalogue: _() returns the translation of a message the locale  *)
(* knows and the message itself otherwise.                                 *)
(***************************************************************************)
Locales == {"C", "de"}

Catalog(locale) ==
    IF locale = "de"
    THEN [m \in {"value", "label", "color", "No data"} |->
            CASE m = "value" -> "Wert"
              [] m = "label" -> "Bezeichnung"
              [] m = "color" -> "Farbe"
              [] OTHER -> "Keine Daten"]
    ELSE [m \in {} |-> ""]

Tr(locale, m) ==
    IF m \in DOMAIN Catalog(locale) THEN Catalog(locale)[m] ELSE m

Idle == [op |-> "none"]

(***************************************************************************)
(* raster_what: the arguments callers pass.                                *)
(***************************************************************************)
Names == {<<"d", "e", "m">>, <<"s", "l">>}
MapArgs == {PStr(n) : n \in Names} \cup {PList(s) : s \in SeqsUpTo(Names, MaxMaps)}

Easts == {-5, 12}
Norths == {640000}
Pairs == {PList(<<PNum(e), PNum(n)>>) : e \in Easts, n \in Norths}
CoordArgs ==
    {PTuple(s) : s \in SeqsUpTo(Pairs, MaxPoints)}
        \cup {PList(s) : s \in SeqsUpTo(Pairs, MaxPoints)}
        \cup {PTuple(p.v) : p \in Pairs}
        \cup {PList(p.v) : p \in Pairs}

(***************************************************************************)
(* raster_what, lines 164-174: the arguments are normalised by their       *)
(* run-time type.                                                          *)
(***************************************************************************)
MapList(map) == IF map.k = "str" THEN <<map.v>> ELSE map.v

\* for e, n in coord: coord_list.append('%f,%f' % (e, n))
RECURSIVE CoordLoop(_, _)
CoordLoop(items, coord_list) ==
    IF items = <<>> THEN Return(coord_list)
    ELSE LET it == Head(items)
         IN  IF it.k = "num" THEN Raise("TypeError")
             ELSE IF Len(it.v) # 2 THEN Raise("ValueError")
             ELSE IF it.v[1].k # "num" \/ it.v[2].k # "num" THEN Raise("TypeError")
             ELSE CoordLoop(Tail(items),
                      Append(coord_list,
                          FormatF(it.v[1].v) \o <<",">> \o FormatF(it.v[2].v)))

CoordList(coord) ==
    IF coord.k = "tuple"
    THEN IF Len(coord.v) < 2 THEN Raise("IndexError")
         ELSE IF coord.v[1].k # "num" \/ coord.v[2].k # "num" THEN Raise("TypeError")
         ELSE Return(<<FormatF(coord.v[1].v) \o <<",">> \o FormatF(coord.v[2].v)>>)
    ELSE CoordLoop(coord.v, <<>>)

\* A slip in the invocation: the points joined by the field separator.
WhatCommand_m(map_list, coord_list, locale) ==
    [tool |-> "r.what", flags |-> "rf", map |-> Join(map_list, ","),
     coordinates |-> Join(coord_list, "|"), null |-> Tr(locale, "No data"),
     quiet |-> TRUE]

\* The one r.what invocation of lines 180-186.
WhatCommand(map_list, coord_list, locale) ==
    [tool |-> "r.what", flags |-> "rf", map |-> Join(map_list, ","),
     coordinates |-> Join(coord_list, ","), null |-> Tr(locale, "No data"),
     quiet |-> TRUE]

(***************************************************************************)
(* What r.what prints: one line per point, east|north|site and then        *)
(* value|label|color for each map.  The model gives every field a text of  *)
(* its own; one line of the output may be cut short or blank, carry a      *)
(* surplus field, or hold a label with the separator in it; the tool may   *)
(* also fail and print nothing.                                            *)
(***************************************************************************)
FieldKinds == <<"v", "l", "c">>

FullField(p, c) ==
    IF c = 1 THEN <<"E", DigitChar(p)>>
    ELSE IF c = 2 THEN <<"N", DigitChar(p)>>
    ELSE IF c = 3 THEN <<>>
    ELSE <<FieldKinds[((c - 4) % 3) + 1], DigitChar(p), DigitChar(((c - 4) \div 3) + 1)>>

Row(p, N, nf, pipe) ==
    [c \in 1..nf |->
        IF c > 3 + 3 * N THEN <<"x">>
        ELSE IF pipe /\ c = 5 THEN <<"l", "|", "l">>
        ELSE FullField(p, c)]

ToolRows(N, P) ==
    {<<>>} \cup
    IF N = 0 \/ P = 0 THEN {}
    ELSE {[p \in 1..P |-> IF p = b THEN Row(p, N, nf, pipe)
                          ELSE Row(p, N, 3 + 3 * N, FALSE)] :
             b \in 0..P, nf \in 0..(3 + 3 * N + 1), pipe \in BOOLEAN}

\* The ways the tool may end a line.
LineEnds == {<<"\n">>, <<"\r", "\n">>}

RECURSIVE Render(_, _)
Render(rows, eol) ==
    IF rows = <<>> THEN <<>>
    ELSE Join(Head(rows), "|") \o eol \o Render(Tail(rows), eol)

(***************************************************************************)
(* raster_what, lines 187-205: the output is reshaped.                     *)
(***************************************************************************)
Labels(localized, locale) ==
    IF localized
    THEN <<Tr(locale, "value"), Tr(locale, "label"), Tr(locale, "color")>>
    ELSE <<"value", "label", "color">>

\* A slip in the index: i + j in place of i*len(labels) + j.
RECURSIVE LabelsLoop_m(_, _, _, _, _)
LabelsLoop_m(line, i, labels, j, inner) ==
    IF j >= Len(labels) THEN Return(inner)
    ELSE IF i + j >= Len(line) THEN Raise("IndexError")
    ELSE LabelsLoop_m(line, i, labels, j + 1,
             [l \in DOMAIN inner \cup {labels[j + 1]} |->
                 IF l = labels[j + 1] THEN line[i + j + 1]
                 ELSE inner[l]])

\* for j in range(len(labels)): tmp_dict[map_name][labels[j]] = line[i*len(labels)+j]
\* (i and j count from 0, as in the source).
RECURSIVE LabelsLoop(_, _, _, _, _)
LabelsLoop(line, i, labels, j, inner) ==
    IF j >= Len(labels) THEN Return(inner)
    ELSE IF i * Len(labels) + j >= Len(line) THEN Raise("IndexError")
    ELSE LabelsLoop(line, i, labels, j + 1,
             [l \in DOMAIN inner \cup {labels[j + 1]} |->
                 IF l = labels[j + 1] THEN line[i * Len(labels) + j + 1]
                 ELSE inner[l]])

EmptyDict == [l \in {} |-> <<>>]

\* A slip in the loop: a short line ends it and the records built so far stay.
RECURSIVE MapsLoop_m(_, _, _, _, _)
MapsLoop_m(line, map_list, labels, i, data) ==
    IF i >= Len(map_list) THEN Return(data)
    ELSE LET r == LabelsLoop(line, i, labels, 0, [l \in {} |-> <<>>])
         IN  IF r.k = "raise" THEN Return(data)
             ELSE MapsLoop_m(line, map_list, labels, i + 1,
                      Append(data, map_list[i + 1] :> r.v))

\* for i, map_name in enumerate(map_list): ... data.append(tmp_dict)
RECURSIVE MapsLoop(_, _, _, _, _)
MapsLoop(line, map_list, labels, i, data) ==
    IF i >= Len(map_list) THEN Return(data)
    ELSE LET r == LabelsLoop(line, i, labels, 0, EmptyDict)
         IN  IF r.k = "raise" THEN r
             ELSE MapsLoop(line, map_list, labels, i + 1,
                      Append(data, map_list[i + 1] :> r.v))

PrefixFields == 3

\* for item in ret.splitlines(): line = item.split(sep)[3:] ...
RECURSIVE LinesLoop(_, _, _, _)
LinesLoop(items, map_list, labels, data) ==
    IF items = <<>> THEN Return(data)
    ELSE LET line == Drop(Split(Head(items), "|"), PrefixFields)
             r == MapsLoop(line, map_list, labels, 0, data)
         IN  IF r.k = "raise" THEN r
             ELSE LinesLoop(Tail(items), map_list, labels, r.v)

\* A slip in the reshaping: split('\n') and no test for an empty output.
Reshape_m(ret, map_list, localized, locale) ==
    LinesLoop(Split(ret, "\n"), map_list, Labels(localized, locale), <<>>)

Reshape(ret, map_list, localized, locale) ==
    IF ret = <<>> THEN Return(<<>>)
    ELSE LinesLoop(SplitLines(ret), map_list, Labels(localized, locale), <<>>)

(***************************************************************************)
(* raster_what(map, coord, env=None, localized=False), lines 153-205.      *)
(***************************************************************************)
raster_what(map, coord, localized) ==
    LET map_list == MapList(map)
        cl == CoordList(coord)
    IN  IF cl.k = "raise"
        THEN last' = [op |-> "raster_what", map |-> map, coord |-> coord,
                      localized |-> localized, events |-> <<>>, rows |-> <<>>,
                      eol |-> <<>>, out |-> cl]
        ELSE \E rows \in ToolRows(Len(map_list), Len(cl.v)), eol \in LineEnds :
                last' = [op |-> "raster_what", map |-> map, coord |-> coord,
                         localized |-> localized,
                         events |-> <<WhatCommand(map_list, cl.v, world.locale)>>,
                         rows |-> rows, eol |-> eol,
                         out |-> Reshape(Render(rows, eol), map_list, localized,
                                         world.locale)]

RasterWhat ==
    /\ last = Idle
    /\ \E map \in MapArgs, coord \in CoordArgs, localized \in BOOLEAN :
          raster_what(map, coord, localized)
    /\ UNCHANGED <<world, procs>>

InitWhat ==
    /\ world \in {[locale |-> l] : l \in Locales}
    /\ last = Idle
    /\ procs = <<>>

SpecWhat == InitWhat /\ [][RasterWhat]_vars

(***************************************************************************)
(* raster_what: what the claims speak of, read off the call's record.      *)
(* The fields of a line are taken from the rows the tool printed, not from *)
(* the text the module parsed.                                             *)
(***************************************************************************)
WhatCalled == last.op = "raster_what"
WhatInvoked == WhatCalled /\ Len(last.events) = 1
ReqNames == IF last.map.k = "str" THEN <<last.map.v>> ELSE last.map.v
ReqN == Len(ReqNames)
TripleKeys ==
    IF last.localized /\ world.locale = "de"
    THEN <<"Wert", "Bezeichnung", "Farbe">>
    ELSE <<"value", "label", "color">>

HasSep(field) == \E n \in 1..Len(field) : field[n] = "|"

\* The pipe-delimited fields of a printed row: a field holding the separator
\* counts as the two fields it is read as; a row without fields is one empty
\* field.
FieldsOf(row) ==
    IF row = <<>> THEN << <<>> >>
    ELSE IF Len(row) >= 5 /\ HasSep(row[5])
    THEN SubSeq(row, 1, 4) \o << <<"l">>, <<"l">> >> \o SubSeq(row, 6, Len(row))
    ELSE row

Triple(fields, i) ==
    (TripleKeys[1] :> fields[3 + 3 * (i - 1) + 1])
        @@ (TripleKeys[2] :> fields[3 + 3 * (i - 1) + 2])
        @@ (TripleKeys[3] :> fields[3 + 3 * (i - 1) + 3])

WellFormed ==
    /\ WhatInvoked
    /\ ReqN >= 1
    /\ \A p \in 1..Len(last.rows) : Len(FieldsOf(last.rows[p])) = 3 + 3 * ReqN

\* C1 as stated: for N >= 1 requested (distinct) names and P printed lines of exactly
\* 3 + 3N fields, raster_what returns P entries, entry p mapping each of the N
\* names to the triple of fields 3+3i .. 3+3i+2 of line p.
C1_Original ==
    (WellFormed /\ \A i, j \in 1..ReqN : ReqNames[i] = ReqNames[j] => i = j) =>
        /\ last.out.k = "return"
        /\ Len(last.out.v) = Len(last.rows)
        /\ \A p \in 1..Len(last.rows) :
              /\ DOMAIN last.out.v[p] = {ReqNames[i] : i \in 1..ReqN}
              /\ \A i \in 1..ReqN :
                    last.out.v[p][ReqNames[i]] = Triple(FieldsOf(last.rows[p]), i)

\* C1 amended: raster_what returns P * N entries, one per point and requested
\* name, point by point in request order; the entry of point p and the i-th
\* name maps that one name to the triple of fields 3+3i .. 3+3i+2 of line p,
\* keyed value/label/color (translated when localized).
C1_Amended ==
    WellFormed =>
        /\ last.out.k = "return"
        /\ Len(last.out.v) = Len(last.rows) * ReqN
        /\ \A p \in 1..Len(last.rows) : \A i \in 1..ReqN :
              last.out.v[(p - 1) * ReqN + i] =
                  (ReqNames[i] :> Triple(FieldsOf(last.rows[p]), i))

C1_Witness ==
    /\ WellFormed
    /\ ReqN = 2
    /\ ReqNames[1] # ReqNames[2]
    /\ Len(last.rows) = 2
    /\ last.out.k = "return"
    /\ Len(last.out.v) = 4

(***************************************************************************)
(* C8: the r.what invocation.                                              *)
(***************************************************************************)
\* The text '%f' gives for the coordinates of the model.
Shown(n) ==
    CASE n = -5 -> <<"-", "5", ".", "0", "0", "0", "0", "0", "0">>
      [] n = 12 -> <<"1", "2", ".", "0", "0", "0", "0", "0", "0">>
      [] n = 640000 ->
            <<"6", "4", "0", "0", "0", "0", ".", "0", "0", "0", "0", "0", "0">>

IsNumPair(s) == Len(s) = 2 /\ s[1].k = "num" /\ s[2].k = "num"
\* The requested pairs: the argument itself when it is one pair, its items
\* when it is a sequence of pairs.
ReqPairs == IF IsNumPair(last.coord.v) THEN <<last.coord.v>>
            ELSE [n \in 1..Len(last.coord.v) |-> last.coord.v[n].v]

InvokedOnceAsRequested ==
    /\ Len(last.events) = 1
    /\ last.events[1].tool = "r.what"
    /\ IF ReqN = 0 THEN last.events[1].map = <<>>
       ELSE Split(last.events[1].map, ",") = ReqNames
    /\ IF ReqPairs = <<>> THEN last.events[1].coordinates = <<>>
       ELSE Split(last.events[1].coordinates, ",") =
                [n \in 1..(2 * Len(ReqPairs)) |->
                    Shown(ReqPairs[(n + 1) \div 2][2 - (n % 2)].v)]

\* C8 as stated: whatever the shape of the two arguments (one name or a
\* sequence of names, one pair or a sequence of pairs), r.what is invoked
\* exactly once with the names and the 'east,north' items joined by commas.
C8_Original == WhatCalled => InvokedOnceAsRequested

\* The shapes lines 170-174 accept: one pair given as a tuple, or a
\* sequence that is not a tuple (a list) of pairs.
AcceptedCoord ==
    \/ last.coord.k = "tuple" /\ IsNumPair(last.coord.v)
    \/ last.coord.k = "list" /\ ~IsNumPair(last.coord.v)

\* C8 amended: with one pair given as a tuple, or a list of pairs, r.what is
\* invoked exactly once with the names and the 'east,north' items joined by
\* commas in request order; one pair given as a list and a tuple of pairs
\* raise an error and r.what is not invoked.
C8_Amended ==
    WhatCalled =>
        IF AcceptedCoord THEN InvokedOnceAsRequested
        ELSE /\ last.out.k = "raise"
             /\ last.out.v \in {"TypeError", "IndexError"}
             /\ last.events = <<>>

C8_Witness ==
    /\ WhatCalled
    /\ last.map.k = "list" /\ ReqN = 2
    /\ last.coord.k = "list" /\ Len(last.coord.v) = 2
    /\ last.coord.v[1] # last.coord.v[2]
    /\ InvokedOnceAsRequested

(***************************************************************************)
(* C9: no output.                                                          *)
(***************************************************************************)
\* C9: when r.what prints nothing, raster_what returns the empty sequence
\* and raises nothing, whatever the names, the points and the localized flag.
C9_EmptyOutput ==
    (WhatInvoked /\ last.rows = <<>>) => last.out = Return(<<>>)

C9_Witness ==
    /\ WhatInvoked
    /\ last.rows = <<>>
    /\ ReqN = 2
    /\ Len(ReqPairs) = 2
    /\ last.localized
    /\ last.out = Return(<<>>)

(***************************************************************************)
(* C10: short and long lines.                                              *)
(***************************************************************************)
SomeShort ==
    \E p \in 1..Len(last.rows) : Len(FieldsOf(last.rows[p])) < 3 + 3 * ReqN

\* C10: with a line of fewer than 3 + 3N fields the call raises and hands no
\* records over; with lines of 3 + 3N fields or more it returns, and the
\* fields past the first 3 + 3N of a line are not read.
C10_ShortAndLong ==
    (WhatInvoked /\ ReqN >= 1 /\ last.rows # <<>>) =>
        IF SomeShort THEN last.out = Raise("IndexError")
        ELSE /\ last.out.k = "return"
             /\ Len(last.out.v) = Len(last.rows) * ReqN
             /\ \A p \in 1..Len(last.rows) : \A i \in 1..ReqN :
                   last.out.v[(p - 1) * ReqN + i] =
                       (ReqNames[i] :>
                           Triple(SubSeq(FieldsOf(last.rows[p]), 1, 3 + 3 * ReqN), i))

\* A second line cut short after a complete first line.
C10_Witness ==
    /\ WhatInvoked
    /\ ReqN = 2
    /\ Len(last.rows) = 2
    /\ Len(FieldsOf(last.rows[1])) = 3 + 3 * ReqN
    /\ Len(FieldsOf(last.rows[2])) = 3 + 3 * ReqN - 1
    /\ last.out = Raise("IndexError")

(***************************************************************************)
(* raster_history(map), lines 32-49.  The world holds the current mapset   *)
(* (gisenv), the mapset each raster is found in ("" when find_file finds   *)
(* none) and the CMDLINE environment variable, which the parser of a       *)
(* script records and which is unset outside one.                          *)
(***************************************************************************)
Mapsets == {"user1", "PERMANENT"}
CmdLines == {PNone, PStr(<<"r", ".", "x">>), PStr(<<"r", ".", "y", " ", "-", "a">>)}

\* The text of lines 47-48: the name is formatted in twice before _() sees
\* the message, and no catalogue holds a formatted message.
WarningText(map) ==
    [fmt |-> "Unable to write history for <%(map)s>. Raster map <%(map)s> not found in current mapset.",
     map |-> map]

\* A slip: the "return True" of line 45 left out, so the call falls through.
raster_history_fall(map) ==
    IF world.where[map] = world.mapset /\ world.cmdline.k = "str"
    THEN last' = [op |-> "raster_history", map |-> map,
                  events |-> <<[ev |-> "run", tool |-> "r.support", map |-> map,
                                history |-> world.cmdline.v],
                               [ev |-> "warning", msg |-> WarningText(map)]>>,
                  out |-> Return(FALSE)]
    ELSE IF world.where[map] = world.mapset
    THEN last' = [op |-> "raster_history", map |-> map,
                  events |-> <<>>, out |-> Raise("KeyError")]
    ELSE last' = [op |-> "raster_history", map |-> map,
                  events |-> <<[ev |-> "warning", msg |-> WarningText(map)]>>,
                  out |-> Return(FALSE)]

\* A slip: os.environ['CMDLINE'] read before the mapset is looked at.
raster_history_eager(map) ==
    IF world.cmdline.k = "none"
    THEN last' = [op |-> "raster_history", map |-> map,
                  events |-> <<>>, out |-> Raise("KeyError")]
    ELSE IF world.where[map] = world.mapset
    THEN last' = [op |-> "raster_history", map |-> map,
                  events |-> <<[ev |-> "run", tool |-> "r.support", map |-> map,
                                history |-> world.cmdline.v]>>,
                  out |-> Return(TRUE)]
    ELSE last' = [op |-> "raster_history", map |-> map,
                  events |-> <<[ev |-> "warning", msg |-> WarningText(map)]>>,
                  out |-> Return(FALSE)]

raster_history(map) ==
    LET current_mapset == world.mapset
    IN  IF world.where[map] = current_mapset
        THEN IF world.cmdline.k = "none"
             THEN last' = [op |-> "raster_history", map |-> map,
                           events |-> <<>>, out |-> Raise("KeyError")]
             ELSE last' = [op |-> "raster_history", map |-> map,
                           events |-> <<[ev |-> "run", tool |-> "r.support",
                                         map |-> map,
                                         history |-> world.cmdline.v]>>,
                           out |-> Return(TRUE)]
        ELSE last' = [op |-> "raster_history", map |-> map,
                      events |-> <<[ev |-> "warning", msg |-> WarningText(map)]>>,
                      out |-> Return(FALSE)]

RasterHistory ==
    /\ last = Idle
    /\ \E map \in Names : raster_history(map)
    /\ UNCHANGED <<world, procs>>

InitHistory ==
    /\ world \in [locale : {"C"}, mapset : Mapsets,
                  where : [Names -> Mapsets \cup {""}], cmdline : CmdLines]
    /\ last = Idle
    /\ procs = <<>>

SpecHistory == InitHistory /\ [][RasterHistory]_vars

HistoryCalled == last.op = "raster_history"
InCurrentMapset == HistoryCalled /\ world.where[last.map] = world.mapset
EventsOf(kind) == {n \in 1..Len(last.events) : last.events[n].ev = kind}

\* What C2 says of a call: True is returned, r.support is run exactly once
\* with the raster as map and the recorded command line as history, and
\* nothing is warned of.
SupportRunOnce ==
    /\ last.out = Return(TRUE)
    /\ Len(last.events) = 1
    /\ last.events[1].ev = "run"
    /\ last.events[1].tool = "r.support"
    /\ last.events[1].map = last.map
    /\ world.cmdline.k = "str"
    /\ last.events[1].history = world.cmdline.v
    /\ EventsOf("warning") = {}

\* C2 as stated: for every raster found in the current mapset
\* raster_history returns True, runs r.support exactly once with the raster
\* as map and the text of CMDLINE as history, and warns of nothing.
C2_Original == InCurrentMapset => SupportRunOnce

\* C2 amended: for a raster found in the current mapset, raster_history
\* returns True, runs r.support exactly once with the raster as map and the
\* text of CMDLINE as history and warns of nothing when CMDLINE is set in
\* the environment; when it is not set the call raises KeyError, runs no
\* tool and warns of nothing.
C2_Amended ==
    InCurrentMapset =>
        IF world.cmdline.k = "str" THEN SupportRunOnce
        ELSE last.out = Raise("KeyError") /\ last.events = <<>>

C2_Witness ==
    /\ InCurrentMapset
    /\ world.cmdline = PStr(<<"r", ".", "y", " ", "-", "a">>)
    /\ last.out = Return(TRUE)
    /\ Len(last.events) = 1

\* C3: for a raster found in another mapset or in none, raster_history
\* returns False, warns exactly once with a message naming the raster, never
\* runs r.support and raises nothing.
C3_OtherMapset ==
    (HistoryCalled /\ ~InCurrentMapset) =>
        /\ last.out = Return(FALSE)
        /\ Len(last.events) = 1
        /\ last.events[1].ev = "warning"
        /\ last.events[1].msg.map = last.map
        /\ EventsOf("run") = {}

C3_Witness ==
    /\ HistoryCalled
    /\ world.where[last.map] = ""
    /\ world.cmdline.k = "none"
    /\ last.out = Return(FALSE)
    /\ Len(last.events) = 1

(***************************************************************************)
(* raster_info(map), lines 52-79.  A float is an exact fraction num/den;   *)
(* inf is 1/0, -inf is -1/0 and nan is 0/0.                                *)
(***************************************************************************)
RECURSIVE GCD(_, _)
GCD(a, b) == IF b = 0 THEN a ELSE GCD(b, a % b)

Abs(n) == IF n < 0 THEN -n ELSE n

Frac(n, d) ==
    LET g == GCD(Abs(n), d)
    IN  [num |-> n \div g, den |-> d \div g]

RECURSIVE Pow(_, _)
Pow(b, e) == IF e = 0 THEN 1 ELSE b * Pow(b, e - 1)

Inf == [num |-> 1, den |-> 0]
NegInf == [num |-> -1, den |-> 0]
NaN == [num |-> 0, den |-> 0]
IsSpecial(x) == x.den = 0

\* x + y of two floats.
FracAdd(x, y) ==
    IF IsSpecial(x) \/ IsSpecial(y)
    THEN IF x = NaN \/ y = NaN THEN NaN
         ELSE IF IsSpecial(x) /\ IsSpecial(y) /\ x # y THEN NaN
         ELSE IF IsSpecial(x) THEN x ELSE y
    ELSE Frac(x.num * y.den + y.num * x.den, x.den * y.den)

\* x / d of a float and a positive integer.
FracDiv(x, d) == IF IsSpecial(x) THEN x ELSE Frac(x.num, x.den * d)

PFloat(x) == [k |-> "float", v |-> x]

IsDigit(c) == \E d \in 1..10 : Digits[d] = c
DigitVal(c) == (CHOOSE d \in 1..10 : Digits[d] = c) - 1

RECURSIVE DigitsVal(_)
DigitsVal(ds) ==
    IF ds = <<>> THEN 0
    ELSE 10 * DigitsVal(SubSeq(ds, 1, Len(ds) - 1)) + DigitVal(ds[Len(ds)])

\* The characters float() strips from both ends of its argument.
\* (space, tab, line feed, vertical tab, form feed, carriage return).
Whitespace == {" ", "\t", "\n", "", "\f", "\r"}

Strip(s) ==
    LET solid == {i \in 1..Len(s) : s[i] \notin Whitespace}
    IN  IF solid = {} THEN <<>>
        ELSE SubSeq(s, CHOOSE i \in solid : \A j \in solid : i <= j,
                       CHOOSE i \in solid : \A j \in solid : i >= j)

\* c.lower() for the letters float() reads.
Lower(c) ==
    CASE c = "E" -> "e" [] c = "I" -> "i" [] c = "N" -> "n" [] c = "F" -> "f"
      [] c = "T" -> "t" [] c = "Y" -> "y" [] c = "A" -> "a" [] OTHER -> c

Unsigned(s) == IF s # <<>> /\ Head(s) \in {"-", "+"} THEN Tail(s) ELSE s
IsNegative(s) == s # <<>> /\ Head(s) = "-"

\* Digits with at most one point among them and at least one digit.
IsMantissa(s) ==
    LET dots == SepPositions(s, ".")
        ds == SelectSeq(s, IsDigit)
    IN  Cardinality(dots) <= 1 /\ ds # <<>> /\ Len(ds) + Cardinality(dots) = Len(s)

\* An optional sign and at least one digit.
IsExponent(s) ==
    LET ds == Unsigned(s)
    IN  ds # <<>> /\ SelectSeq(ds, IsDigit) = ds

\* The value of a mantissa and an exponent (empty when there is none).
FloatOf(neg, mant, expo) ==
    LET dots == SepPositions(mant, ".")
        decimals == IF dots = {} THEN 0 ELSE Len(mant) - (CHOOSE i \in dots : TRUE)
        mag == DigitsVal(SelectSeq(mant, IsDigit))
        e == IF IsNegative(expo) THEN -DigitsVal(Unsigned(expo))
             ELSE DigitsVal(Unsigned(expo))
    IN  IF e >= decimals
        THEN Frac((IF neg THEN -mag ELSE mag) * Pow(10, e - decimals), 1)
        ELSE Frac(IF neg THEN -mag ELSE mag, Pow(10, decimals - e))

\* The element of a set of one element.
Only(S) == CHOOSE x \in S : TRUE

\* What float() makes of a text without its sign, in lower case: inf,
\* infinity or nan, or a mantissa (digits with at most one point) and an
\* optional exponent (e, an optional sign, digits); anything else is a
\* ValueError.
ParseBody(neg, body) ==
    LET es == SepPositions(body, "e")
        epos == IF es = {} THEN Len(body) + 1 ELSE Only(es)
    IN  IF body \in {<<"i", "n", "f">>, <<"i", "n", "f", "i", "n", "i", "t", "y">>}
        THEN Return(IF neg THEN NegInf ELSE Inf)
        ELSE IF body = <<"n", "a", "n">> THEN Return(NaN)
        ELSE IF \/ Cardinality(es) > 1
                \/ ~IsMantissa(SubSeq(body, 1, epos - 1))
                \/ es # {} /\ ~IsExponent(SubSeq(body, epos + 1, Len(body)))
        THEN Raise("ValueError")
        ELSE Return(FloatOf(neg, SubSeq(body, 1, epos - 1),
                            SubSeq(body, epos + 1, Len(body))))

\* float(s): white space at the ends is dropped, an optional sign is read
\* and the case of the letters does not count.
ParseFloat(s) ==
    Only({ParseBody(IsNegative(t[1]), t[2]) :
            t \in {<<Strip(s), [i \in 1..Len(Unsigned(Strip(s))) |->
                                   Lower(Unsigned(Strip(s))[i])]>>}})

\* A slip: an empty text taken for NULL too.
float_or_null_m(s) ==
    IF s = <<"N", "U", "L", "L">> \/ s = <<>> THEN Return(PNone)
    ELSE LET f == ParseFloat(s)
         IN  IF f.k = "raise" THEN f ELSE Return(PFloat(f.v))

\* float_or_null, lines 65-69
float_or_null(s) ==
    IF s = <<"N", "U", "L", "L">> THEN Return(PNone)
    ELSE LET f == ParseFloat(s)
         IN  IF f.k = "raise" THEN f ELSE Return(PFloat(f.v))

\* float_or_dms of the utils module: the sum of float(x) / 60 ** n over the
\* parts x of s.split(':'), n counting from 0.
RECURSIVE DmsSum(_, _, _)
DmsSum(parts, n, acc) ==
    IF n > Len(parts) THEN Return(PFloat(acc))
    ELSE LET f == ParseFloat(parts[n])
         IN  IF f.k = "raise" THEN f
             ELSE DmsSum(parts, n + 1,
                      FracAdd(acc, FracDiv(f.v, Pow(60, n - 1))))

float_or_dms(s) == DmsSum(Split(s, ":"), 1, Frac(0, 1))

PlainFloat(s) ==
    LET f == ParseFloat(s)
    IN  IF f.k = "raise" THEN f ELSE Return(PFloat(f.v))

Convert(conv, s) ==
    CASE conv = "float_or_null" -> float_or_null(s)
      [] conv = "float" -> PlainFloat(s)
      [] conv = "float_or_dms" -> float_or_dms(s)

\* kv[k] = conv(kv[k]) for the keys of one loop, in order; a key that is
\* missing is a KeyError and a text that does not parse a ValueError.
RECURSIVE Coerce(_, _, _)
Coerce(kv, keys, conv) ==
    IF kv.k = "raise" \/ keys = <<>> THEN kv
    ELSE LET key == Head(keys)
         IN  IF key \notin DOMAIN kv.v THEN Raise("KeyError")
             ELSE LET c == Convert(conv, kv.v[key].v)
                  IN  IF c.k = "raise" THEN c
                      ELSE Coerce(Return([kv.v EXCEPT ![key] = c.v]),
                                  Tail(keys), conv)

\* Lines 72-79 on the parsed output kv, a dictionary of texts.
InfoResult(kv) ==
    LET texts == Return([key \in DOMAIN kv |-> PStr(kv[key])])
        a == Coerce(texts, <<"min", "max">>, "float_or_null")
        b == Coerce(a, <<"north", "south", "east", "west">>, "float")
    IN  Coerce(b, <<"nsres", "ewres">>, "float_or_dms")

raster_info(map, kv) ==
    last' = [op |-> "raster_info", map |-> map, kv |-> kv,
             events |-> <<[ev |-> "read", tool |-> "r.info", flags |-> "gre",
                          map |-> map]>>,
             out |-> InfoResult(kv)]

(***************************************************************************)
(* What parse_key_val makes of the output of r.info -gre: a dictionary     *)
(* of texts.  The model lets one key (one of each loop of lines 73-78 or   *)
(* one that is not coerced) be missing and the values of min, max and one  *)
(* more key differ from the usual ones.                                    *)
(***************************************************************************)
InfoKeys == {"min", "max", "north", "south", "east", "west", "nsres", "ewres",
             "rows", "datatype"}
NULLText == <<"N", "U", "L", "L">>
UsualText(key) ==
    CASE key = "min" -> <<"5", "5", ".", "5">>
      [] key = "max" -> <<"1", "5", "6">>
      [] key = "north" -> <<"2", "2", "8", "5", "0", "0">>
      [] key = "south" -> <<"2", "1", "5", "0", "0", "0">>
      [] key = "east" -> <<"6", "4", "5", "0", "0", "0">>
      [] key = "west" -> <<"-", "6", "3", ".", "2", "5">>
      [] key = "nsres" -> <<"1", "0">>
      [] key = "ewres" -> <<"0", ":", "0", "0", ":", "3", "0">>
      [] key = "rows" -> <<"1", "3", "5", "0">>
      [] OTHER -> <<"F", "C", "E", "L", "L">>
OddTexts == {NULLText, <<>>, <<"1", "0", ".", "5">>, <<"-", "3">>,
             <<"1", ":", "3", "0">>, <<"1", ".", "2", ".", "3">>, <<"5", ".">>,
             <<"1", "E", "-", "0", "5">>, <<" ", "1", " ">>}
MinMaxTexts == {NULLText, <<>>, <<"n", "o">>, <<"1", "e", "+", "0", "5">>,
                <<"n", "a", "n">>}
MissingKeys == {"min", "north", "nsres", "rows"}

ParsedOutputs ==
    {[key \in InfoKeys \ gone |->
         IF key = "min" THEN mn
         ELSE IF key = "max" THEN mx
         ELSE IF key = odd THEN oddText
         ELSE UsualText(key)] :
        gone \in {{}} \cup {{key} : key \in MissingKeys},
        mn \in MinMaxTexts \cup {UsualText("min")},
        mx \in MinMaxTexts \cup {UsualText("max")},
        odd \in InfoKeys \ {"min", "max"}, oddText \in OddTexts}

RasterInfo ==
    /\ last = Idle
    /\ \E map \in Names, kv \in ParsedOutputs : raster_info(map, kv)
    /\ UNCHANGED <<world, procs>>

InitInfo ==
    /\ world = [locale |-> "C"]
    /\ last = Idle
    /\ procs = <<>>

SpecInfo == InitInfo /\ [][RasterInfo]_vars

InfoCalled == last.op = "raster_info"
CoercedKeys == {"min", "max", "north", "south", "east", "west", "nsres", "ewres"}

\* C7: whenever raster_info returns, the returned dictionary has exactly the
\* keys of the parsed r.info output, every key other than min, max, north,
\* south, east, west, nsres and ewres keeps the text r.info gave it, and min
\* and max are None exactly when their text was NULL.
C7_KeysKept ==
    (InfoCalled /\ last.out.k = "return") =>
        /\ DOMAIN last.out.v = DOMAIN last.kv
        /\ \A key \in DOMAIN last.kv \ CoercedKeys :
              last.out.v[key] = PStr(last.kv[key])
        /\ \A key \in {"min", "max"} :
              (last.out.v[key] = PNone) <=> (last.kv[key] = <<"N", "U", "L", "L">>)

C7_Witness ==
    /\ InfoCalled
    /\ last.out.k = "return"
    /\ DOMAIN last.kv = InfoKeys
    /\ last.kv["min"] = <<"N", "U", "L", "L">>
    /\ last.kv["max"] = <<"1", "e", "+", "0", "5">>
    /\ last.kv["nsres"] = <<"1", ":", "3", "0">>
    /\ last.out.v["min"] = PNone
    /\ last.out.v["max"] = PFloat([num |-> 100000, den |-> 1])
    /\ last.out.v["nsres"] = PFloat([num |-> 3, den |-> 2])
    /\ last.out.v["datatype"] = PStr(<<"F", "C", "E", "L", "L">>)

(***************************************************************************)
(* string.Template(exp).substitute on kwargs, lines 99-100 and 143-144.    *)
(* A "$" starts "$$" (a literal "$"), "$name", "${name}" or is invalid; a  *)
(* name is [_a-zA-Z][_a-zA-Z0-9]*, as long as it can be.  The first         *)
(* placeholder without a binding is a KeyError, the first invalid "$" a    *)
(* ValueError.                                                             *)
(***************************************************************************)
IdStartChars ==
    {"_", "a", "b", "c", "d", "e", "f", "g", "h", "i", "j", "k", "l", "m",
     "n", "o", "p", "q", "r", "s", "t", "u", "v", "w", "x", "y", "z",
     "A", "B", "C", "D", "E", "F", "G", "H", "I", "J", "K", "L", "M",
     "N", "O", "P", "Q", "R", "S", "T", "U", "V", "W", "X", "Y", "Z"}
IsIdChar(c) == c \in IdStartChars \/ IsDigit(c)

\* The end of the name that starts at position i of s (i - 1 when none does).
RECURSIVE NameEnd(_, _)
NameEnd(s, i) ==
    IF i > Len(s) \/ ~IsIdChar(s[i]) THEN i - 1 ELSE NameEnd(s, i + 1)

IdEnd(s, i) ==
    IF i > Len(s) \/ s[i] \notin IdStartChars THEN i - 1 ELSE NameEnd(s, i)

RECURSIVE SubstFrom(_, _, _, _)
SubstFrom(s, i, kwargs, acc) ==
    IF i > Len(s) THEN Return(acc)
    ELSE IF s[i] # "$" THEN SubstFrom(s, i + 1, kwargs, Append(acc, s[i]))
    ELSE IF i + 1 <= Len(s) /\ s[i + 1] = "$"
    THEN SubstFrom(s, i + 2, kwargs, Append(acc, "$"))
    ELSE IF IdEnd(s, i + 1) >= i + 1
    THEN LET name == SubSeq(s, i + 1, IdEnd(s, i + 1))
         IN  IF name \notin DOMAIN kwargs THEN Raise("KeyError")
             ELSE SubstFrom(s, IdEnd(s, i + 1) + 1, kwargs, acc \o kwargs[name])
    ELSE IF /\ i + 1 <= Len(s) /\ s[i + 1] = "{"
            /\ IdEnd(s, i + 2) >= i + 2
            /\ IdEnd(s, i + 2) + 1 <= Len(s)
            /\ s[IdEnd(s, i + 2) + 1] = "}"
    THEN LET name == SubSeq(s, i + 2, IdEnd(s, i + 2))
         IN  IF name \notin DOMAIN kwargs THEN Raise("KeyError")
             ELSE SubstFrom(s, IdEnd(s, i + 2) + 2, kwargs, acc \o kwargs[name])
    ELSE Raise("ValueError")

Substitute(exp, kwargs) == SubstFrom(exp, 1, kwargs, <<>>)

(***************************************************************************)
(* mapcalc and mapcalc_start, lines 82-150: what callers pass.             *)
(***************************************************************************)
CalcExpressions ==
    {<<"o", "=", "$", "a", "*", "2">>,      \* o=$a*2
     <<"$", "{", "a", "}", "b">>,           \* ${a}b
     <<"$", "$", "a">>,                     \* $$a
     <<"$", "b", "+", "$", "a">>,           \* $b+$a
     <<"x", "$">>,                          \* x$
     <<"$", "a", "1">>,                     \* $a1
     <<>>}                                  \* the empty expression

NoBindings == [name \in {} |-> <<>>]
CalcBindings ==
    {NoBindings,
     <<"a">> :> <<"d", "e", "m">>,
     (<<"a">> :> <<"d", "e", "m">>) @@ (<<"b">> :> <<"s", "l">>)}

Auto == PStr(<<"a", "u", "t", "o">>)
Seeds == {PNone, Auto, PNum(42)}
\* hash((os.getpid(), time.time())) % (2**32): some integer of 0 .. 2**32 - 1
\* that depends on the process and the clock.  The model does not say which;
\* it holds the seed as a value of that range and no more.
HashedSeed == [k |-> "num", v |-> [range |-> "0 .. 2**32 - 1"]]
Options == {[quiet |-> FALSE, verbose |-> FALSE, overwrite |-> FALSE],
            [quiet |-> TRUE, verbose |-> FALSE, overwrite |-> TRUE]}
ExitCodes == {0, 1}

\* Lines 96-97 and 140-141.
ResolveSeed(seed) == IF seed = Auto THEN HashedSeed ELSE seed

\* The arguments lines 103-104 and 146-147 hand to r.mapcalc.
CalcCommand(seed, opts) ==
    [tool |-> "r.mapcalc", file |-> "-", seed |-> seed, quiet |-> opts.quiet,
     verbose |-> opts.verbose, overwrite |-> opts.overwrite]

FatalText == "An error occurred while running r.mapcalc"

\* write_command of the core module: starts the tool, feeds it stdin, waits
\* for it to exit with the status rc, and raises CalledModuleError when rc is
\* not zero.
write_command(cmd, stdin, rc) ==
    [event |-> [ev |-> "write_command", cmd |-> cmd, stdin |-> stdin, rc |-> rc],
     out |-> IF rc # 0 THEN Raise("CalledModuleError") ELSE Return(PNone)]

\* fatal of the core module: prints the message and leaves with SystemExit,
\* or raises ScriptError when the script asked for that.
fatal(msg) ==
    [event |-> [ev |-> "fatal", msg |-> msg],
     out |-> Raise(IF world.raise_on_error THEN "ScriptError" ELSE "SystemExit")]

\* A slip: no try/except around write_command, so its error goes to the caller.
mapcalc_uncaught(exp, kwargs, seed, opts, rc) ==
    LET sd == ResolveSeed(seed)
        e == Substitute(exp, kwargs)
        call == [op |-> "mapcalc", exp |-> exp, kwargs |-> kwargs]
        w == write_command(CalcCommand(sd, opts), e.v, rc)
    IN  /\ procs' = procs
        /\ IF e.k = "raise"
           THEN last' = call @@ [events |-> <<>>, out |-> e]
           ELSE last' = call @@ [events |-> <<w.event>>, out |-> w.out]

(***************************************************************************)
(* mapcalc, lines 96-106.                                                  *)
(***************************************************************************)
mapcalc(exp, kwargs, seed, opts, rc) ==
    LET sd == ResolveSeed(seed)
        e == Substitute(exp, kwargs)
        call == [op |-> "mapcalc", exp |-> exp, kwargs |-> kwargs]
        w == write_command(CalcCommand(sd, opts), e.v, rc)
        f == fatal(Tr(world.locale, FatalText))
    IN  /\ procs' = procs
        /\ IF e.k = "raise"
           THEN last' = call @@ [events |-> <<>>, out |-> e]
           ELSE IF w.out = Raise("CalledModuleError")
           THEN last' = call @@ [events |-> <<w.event, f.event>>, out |-> f.out]
           ELSE last' = call @@ [events |-> <<w.event>>, out |-> Return(PNone)]

\* The r.mapcalc process feed_command has started, before anything is
\* written to it.
Started == [stdin |-> <<>>, closed |-> FALSE, waited |-> FALSE,
            returned |-> FALSE]

\* The process of a handle that has been written to, closed and returned.
Fed(e) == [stdin |-> <<e>>, closed |-> TRUE, waited |-> FALSE,
           returned |-> TRUE]

\* A slip: the tool started before the expression is expanded.
mapcalc_start_early(exp, kwargs, seed, opts, reading) ==
    LET sd == ResolveSeed(seed)
        e == Substitute(exp, kwargs)
        call == [op |-> "mapcalc_start", exp |-> exp, kwargs |-> kwargs]
        h == Len(procs) + 1
        fed == [ev |-> "feed_command", h |-> h, cmd |-> CalcCommand(sd, opts)]
    IN  IF e.k = "raise"
        THEN /\ last' = call @@ [events |-> <<fed>>, out |-> e]
             /\ procs' = Append(procs, Started)
        ELSE IF ~reading /\ e.v # <<>>
        THEN /\ last' = call @@ [events |-> <<fed>>, out |-> Raise("IOError")]
             /\ procs' = Append(procs, Started)
        ELSE /\ last' = call @@
                    [events |-> <<fed, [ev |-> "write", h |-> h, text |-> e.v],
                                  [ev |-> "close", h |-> h]>>,
                     out |-> Return(h)]
             /\ procs' = Append(procs, Fed(e.v))

\* A slip: the input stream left open (line 149 left out).
mapcalc_start_open(exp, kwargs, seed, opts, reading) ==
    LET sd == ResolveSeed(seed)
        e == Substitute(exp, kwargs)
        call == [op |-> "mapcalc_start", exp |-> exp, kwargs |-> kwargs]
        h == Len(procs) + 1
        fed == [ev |-> "feed_command", h |-> h, cmd |-> CalcCommand(sd, opts)]
    IN  IF e.k = "raise"
        THEN /\ last' = call @@ [events |-> <<>>, out |-> e]
             /\ procs' = procs
        ELSE IF ~reading /\ e.v # <<>>
        THEN /\ last' = call @@ [events |-> <<fed>>, out |-> Raise("IOError")]
             /\ procs' = Append(procs, Started)
        ELSE /\ last' = call @@
                    [events |-> <<fed, [ev |-> "write", h |-> h, text |-> e.v]>>,
                     out |-> Return(h)]
             /\ procs' = Append(procs, [Fed(e.v) EXCEPT !.closed = FALSE])

(***************************************************************************)
(* mapcalc_start, lines 140-150.  The handle returned is the place of the  *)
(* new process in procs.  Whether r.mapcalc still has its input open when  *)
(* line 148 writes to it is not in the hands of this code (reading): the   *)
(* process may have exited or closed its input, and then the write of a    *)
(* text that is not empty raises IOError (broken pipe), line 149 is not    *)
(* reached and no handle is returned; the write of an empty text does      *)
(* not fail.  The expressions are short of what a pipe holds, so the       *)
(* write does not wait for the process to read.  Whether a process has     *)
(* exited is not part of the state: procs holds what was written to it,    *)
(* whether its input was closed, whether its handle was returned and       *)
(* whether the caller has waited on it.                                    *)
(***************************************************************************)
mapcalc_start(exp, kwargs, seed, opts, reading) ==
    LET sd == ResolveSeed(seed)
        e == Substitute(exp, kwargs)
        call == [op |-> "mapcalc_start", exp |-> exp, kwargs |-> kwargs]
        h == Len(procs) + 1
        fed == [ev |-> "feed_command", h |-> h, cmd |-> CalcCommand(sd, opts)]
    IN  IF e.k = "raise"
        THEN /\ last' = call @@ [events |-> <<>>, out |-> e]
             /\ procs' = procs
        ELSE IF ~reading /\ e.v # <<>>
        THEN /\ last' = call @@ [events |-> <<fed>>, out |-> Raise("IOError")]
             /\ procs' = Append(procs, Started)
        ELSE /\ last' = call @@
                    [events |-> <<fed, [ev |-> "write", h |-> h, text |-> e.v],
                                  [ev |-> "close", h |-> h]>>,
                     out |-> Return(h)]
             /\ procs' = Append(procs, Fed(e.v))

Mapcalc ==
    /\ last = Idle
    /\ \E exp \in CalcExpressions, kwargs \in CalcBindings, seed \in Seeds,
          opts \in Options, rc \in ExitCodes :
          mapcalc(exp, kwargs, seed, opts, rc)
    /\ UNCHANGED world

MapcalcStart ==
    /\ last = Idle
    /\ Len(procs) < MaxProcs
    /\ \E exp \in CalcExpressions, kwargs \in CalcBindings, seed \in Seeds,
          opts \in Options, reading \in BOOLEAN :
          mapcalc_start(exp, kwargs, seed, opts, reading)
    /\ UNCHANGED world

\* The caller waits on a handle (p1.wait(), lines 121-125).
Wait ==
    /\ last = Idle
    /\ \E h \in 1..Len(procs) :
          /\ procs[h].returned
          /\ ~procs[h].waited
          /\ procs' = [procs EXCEPT ![h].waited = TRUE]
    /\ UNCHANGED <<world, last>>

\* The caller goes on after a call that returned or raised; after fatal's
\* SystemExit the script is over.
Resume ==
    /\ last # Idle
    /\ last.out # Raise("SystemExit")
    /\ last' = Idle
    /\ UNCHANGED <<world, procs>>

InitCalc ==
    /\ world \in [locale : {"C"}, raise_on_error : BOOLEAN]
    /\ last = Idle
    /\ procs = <<>>

NextCalc == Mapcalc \/ MapcalcStart \/ Wait \/ Resume

SpecCalc == InitCalc /\ [][NextCalc]_vars

(***************************************************************************)
(* mapcalc and mapcalc_start: what the claims speak of.  The placeholders  *)
(* of each expression of the model and the text it expands to are written  *)
(* out here, not computed by Substitute.                                   *)
(***************************************************************************)
CalcCalled == last.op \in {"mapcalc", "mapcalc_start"}

Placeholders(exp) ==
    CASE exp = <<"o", "=", "$", "a", "*", "2">> -> {<<"a">>}
      [] exp = <<"$", "{", "a", "}", "b">> -> {<<"a">>}
      [] exp = <<"$", "b", "+", "$", "a">> -> {<<"a">>, <<"b">>}
      [] exp = <<"$", "a", "1">> -> {<<"a", "1">>}
      [] OTHER -> {}

Unbound == \E name \in Placeholders(last.exp) : name \notin DOMAIN last.kwargs

Expanded(exp, kwargs) ==
    CASE exp = <<"o", "=", "$", "a", "*", "2">> ->
            <<"o", "=">> \o kwargs[<<"a">>] \o <<"*", "2">>
      [] exp = <<"$", "{", "a", "}", "b">> -> kwargs[<<"a">>] \o <<"b">>
      [] exp = <<"$", "b", "+", "$", "a">> ->
            kwargs[<<"b">>] \o <<"+">> \o kwargs[<<"a">>]
      [] exp = <<"$", "$", "a">> -> <<"$", "a">>
      [] exp = <<>> -> <<>>

\* C4: in mapcalc and in mapcalc_start an expression with a placeholder that
\* has no binding raises the template error (KeyError) before anything is
\* started: no r.mapcalc is launched, nothing is written, the processes are
\* as they were.
C4_SubstitutionFirst ==
    [][(last = Idle /\ CalcCalled' /\ Unbound') =>
          /\ last'.out = Raise("KeyError")
          /\ last'.events = <<>>
          /\ procs' = procs]_vars

C4_Witness ==
    /\ last.op = "mapcalc_start"
    /\ Unbound
    /\ last.kwargs # NoBindings
    /\ last.out = Raise("KeyError")
    /\ last.events = <<>>
    /\ Len(procs) = 1

\* What holds of the handle h that mapcalc_start has just returned.
StartedInOrder ==
    LET h == last.out.v
        e == Expanded(last.exp, last.kwargs)
    IN  /\ Len(last.events) = 3
        /\ last.events[1].ev = "feed_command"
        /\ last.events[1].h = h
        /\ last.events[1].cmd.tool = "r.mapcalc"
        /\ last.events[2] = [ev |-> "write", h |-> h, text |-> e]
        /\ last.events[3] = [ev |-> "close", h |-> h]
        /\ h = Len(procs)
        /\ procs[h] = [stdin |-> <<e>>, closed |-> TRUE, waited |-> FALSE,
                       returned |-> TRUE]

\* C5: a mapcalc_start that returns has launched r.mapcalc, written the
\* expanded expression to its input once, closed that input and not waited,
\* in this order; the processes started before are as they were, and each
\* handle returned before has its own expression written once and its input
\* closed.
C5_StartOrder ==
    [][(last = Idle /\ last'.op = "mapcalc_start" /\ last'.out.k = "return") =>
          /\ StartedInOrder'
          /\ Len(procs') = Len(procs) + 1
          /\ \A h \in 1..Len(procs) :
                /\ procs'[h] = procs[h]
                /\ procs[h].returned =>
                      procs[h].closed /\ Len(procs[h].stdin) = 1]_vars

\* Two handles, neither waited on, each fed its own expression.
C5_Witness ==
    /\ last.op = "mapcalc_start"
    /\ last.out = Return(2)
    /\ StartedInOrder
    /\ procs[1].returned
    /\ ~procs[1].waited
    /\ procs[1].closed
    /\ procs[1].stdin # procs[2].stdin

\* C6: mapcalc returns only after r.mapcalc has exited; an exit status other
\* than zero ends in fatal with the message naming r.mapcalc, the caller gets
\* neither a value nor the CalledModuleError; with status zero fatal is not
\* called.
C6_FatalOnFailure ==
    (last.op = "mapcalc" /\ last.events # <<>>) =>
        /\ last.events[1].ev = "write_command"
        /\ last.events[1].cmd.tool = "r.mapcalc"
        /\ last.events[1].stdin = Expanded(last.exp, last.kwargs)
        /\ IF last.events[1].rc # 0
           THEN /\ Len(last.events) = 2
                /\ last.events[2] =
                      [ev |-> "fatal",
                       msg |-> "An error occurred while running r.mapcalc"]
                /\ last.out.k = "raise"
                /\ last.out.v \in {"SystemExit", "ScriptError"}
           ELSE /\ Len(last.events) = 1
                /\ last.out = Return(PNone)

C6_Witness ==
    /\ last.op = "mapcalc"
    /\ Len(last.events) = 2
    /\ last.events[1].rc = 1
    /\ last.events[2].ev = "fatal"
    /\ last.out = Raise("SystemExit")

====
